---- MODULE Spec2Model ----
(***************************************************************************)
(* Model of slack_bot.py: the SlackMessenger class.                        *)
(*                                                                         *)
(* State: the Messenger instances built so far, the process-wide logger    *)
(* 'slack_messenger' (its handlers, its level, the records a call adds to *)
(* the log file; what the file held before the call is not kept), and      *)
(* the frame of the send_dm call in progress (arguments, the local         *)
(* variable `files`, the pending return value or exception, the remote     *)
(* calls made, the file handles open).                                     *)
(*                                                                         *)
(* Strings whose characters the code inspects (user ids, file suffixes)    *)
(* are sequences of one-character strings.                                 *)
(***************************************************************************)
EXTENDS Integers, Sequences, FiniteSets, TLC

\* ------------------------------------------------------------------ bounds
MaxInstances == 2   \* successful constructions
MaxCalls     == 2   \* send_dm / _validate_file calls

\* --------------------------------------------------------------- constants
max_retries   == 3
timeout       == 30
max_file_size == 10 * 1024 * 1024
allowed_file_types ==
    { <<".","p","d","f">>, <<".","d","o","c">>, <<".","d","o","c","x">>,
      <<".","x","l","s">>, <<".","x","l","s","x">>, <<".","j","p","g">>,
      <<".","p","n","g">>, <<".","g","i","f">>, <<".","t","x","t">> }

DefaultConfig ==
    [ max_retries        |-> max_retries,
      timeout            |-> timeout,
      max_file_size      |-> max_file_size,
      allowed_file_types |-> allowed_file_types ]

\* ------------------------------------------------------------ python values
None == "<None>"                       \* Python's None where a str is expected
Falsy(v) == v = None \/ v = ""         \* truthiness of an Optional[str]
\* `a or b`
Or(a, b) == IF Falsy(a) THEN b ELSE a

\* str.lower(), character by character
LowerChar(c) ==
    CASE c = "A" -> "a" [] c = "B" -> "b" [] c = "C" -> "c" [] c = "D" -> "d"
      [] c = "E" -> "e" [] c = "F" -> "f" [] c = "G" -> "g" [] c = "H" -> "h"
      [] c = "I" -> "i" [] c = "J" -> "j" [] c = "K" -> "k" [] c = "L" -> "l"
      [] c = "M" -> "m" [] c = "N" -> "n" [] c = "O" -> "o" [] c = "P" -> "p"
      [] c = "Q" -> "q" [] c = "R" -> "r" [] c = "S" -> "s" [] c = "T" -> "t"
      [] c = "U" -> "u" [] c = "V" -> "v" [] c = "W" -> "w" [] c = "X" -> "x"
      [] c = "Y" -> "y" [] c = "Z" -> "z" [] OTHER -> c
lower(s) == [i \in 1..Len(s) |-> LowerChar(s[i])]

\* str.startswith(prefix) for a one-character prefix
startswith(s, prefix) == Len(s) >= 1 /\ s[1] = prefix

\* logging level numbers; a name the logging module does not define has none
LevelNames == {"DEBUG", "INFO", "WARNING", "ERROR", "CRITICAL"}
LevelNo(name) ==
    CASE name = "DEBUG" -> 10 [] name = "INFO" -> 20 [] name = "WARNING" -> 30
      [] name = "ERROR" -> 40 [] name = "CRITICAL" -> 50

\* ------------------------------------------------------------------ inputs
\* token argument and SLACK_BOT_TOKEN: absent, empty, or a credential
Tokens    == {None, "", "xoxb-arg"}
EnvTokens == {None, "", "xoxb-env"}
\* SLACK_LOG_LEVEL after .upper(); "VERBOSE" is not a logging level
LogLevelEnv == {"INFO", "CRITICAL", "VERBOSE"}

\* user_id: a str (its characters) or not a str at all
UserIds ==
    { [isStr |-> TRUE,  chars |-> <<"U","1">>],
      [isStr |-> TRUE,  chars |-> <<"X","1">>],
      [isStr |-> TRUE,  chars |-> <<>>],
      [isStr |-> FALSE, chars |-> <<>>] }
NoUser == [isStr |-> FALSE, chars |-> <<>>]

\* file_path: falsy (None or ""), or a path with what the filesystem says of it
Sizes    == {max_file_size - 1, max_file_size, max_file_size + 1}
Suffixes == { <<".","p","d","f">>, <<".","P","D","F">>, <<".","e","x","e">> }
NoFile   == [truthy |-> FALSE, kind |-> "missing", size |-> 0,
             suffix |-> <<>>, readable |-> FALSE]
FilePaths ==
    {NoFile}
    \cup { [truthy |-> TRUE, kind |-> "missing", size |-> 0,
            suffix |-> s, readable |-> FALSE] : s \in {<<".","p","d","f">>} }
    \cup { [truthy |-> TRUE, kind |-> "file", size |-> z,
            suffix |-> s, readable |-> TRUE] : z \in Sizes, s \in Suffixes }
    \cup { [truthy |-> TRUE, kind |-> "file", size |-> z,
            suffix |-> s, readable |-> FALSE] :
              z \in {max_file_size}, s \in {<<".","p","d","f">>} }
    \cup { [truthy |-> TRUE, kind |-> "dir", size |-> 4096,
            suffix |-> s, readable |-> FALSE] : s \in Suffixes }

\* what a remote call can do: return, raise SlackApiError, raise something else
ApiErrors   == {"channel_not_found", "ratelimited"}
OtherErrors == {"timed out"}
NoExc == [type |-> "none", msg |-> ""]
RemoteOutcomes ==
    {NoExc}
    \cup { [type |-> "SlackApiError", msg |-> m] : m \in ApiErrors }
    \cup { [type |-> "Exception", msg |-> m] : m \in OtherErrors }

VARIABLES
    instances,    \* the Messenger instances constructed, in order
    lastCtor,     \* what the last construction attempt did, until the next call
    handlers,     \* number of handlers attached to logger 'slack_messenger'
    loggerLevel,  \* level number of logger 'slack_messenger'
    appended,     \* records the current call appended to slack_messenger.log
    pc,           \* position in send_dm, "idle" between calls
    self,         \* index of the instance the current call runs on
    user_id,      \* send_dm argument
    file_path,    \* send_dm argument
    files,        \* send_dm local: "unbound", "None" or "handle"
    ret,          \* return value pending while `finally` runs
    exc,          \* exception being handled
    remote,       \* remote calls made by the current call, in order
    openHandles,  \* file handles open (named by the call that opened them)
    result,       \* how the last call ended
    validated,    \* last _validate_file call: its argument and result
    logged,       \* records the current call handed to the logger
    calls         \* calls begun

vars == << instances, lastCtor, handlers, loggerLevel, appended, pc, self, user_id,
           file_path, files, ret, exc, remote, openHandles, result, validated,
           logged, calls >>

callVars == << pc, self, user_id, file_path, files, ret, exc, remote,
               openHandles, result, validated, logged, calls >>

\* ----------------------------------------------------------------- logging
Record(level, event, user, err) ==
    [level |-> level, event |-> event, user |-> user, err |-> err]

\* n copies of record r
RECURSIVE Copies(_, _)
Copies(r, n) == IF n = 0 THEN <<>> ELSE <<r>> \o Copies(r, n - 1)

\* Logger.log: a record at or above the logger's level goes to every handler
\* of the logger; all of them append to the same file
Emit(lg, r) ==
    IF LevelNo(r.level) >= loggerLevel THEN lg \o Copies(r, handlers) ELSE lg

\* self.logger.error(...) / self.logger.info(...) for each record of rs
Log(rs) ==
    /\ logged' = logged \o rs
    /\ appended' = IF rs = <<>> THEN appended ELSE Emit(appended, rs[1])

\* ------------------------------------------------------------ construction
NoCtor == [attempted |-> FALSE, credential |-> FALSE, outcome |-> "none",
           client |-> FALSE, config |-> FALSE, handler |-> FALSE,
           produced |-> FALSE]

\* variant: only an absent credential is refused, an empty one is accepted
TokenMissingNoneOnly(tok) == tok = None

\* line 67: `if not self.token`
TokenMissing(tok) == Falsy(tok)

\* SlackMessenger(token) with SLACK_BOT_TOKEN = env, SLACK_LOG_LEVEL = log_level
SlackMessenger(token, env, log_level) ==
    /\ pc = "idle"
    /\ Len(instances) < MaxInstances
    /\ LET tok == Or(token, env) IN
       IF TokenMissing(tok)
       THEN \* raise ValueError: nothing has been created yet
            /\ lastCtor' = [attempted |-> TRUE, credential |-> ~Falsy(tok),
                            outcome |-> "ValueError", client |-> FALSE,
                            config |-> FALSE, handler |-> FALSE,
                            produced |-> FALSE]
            /\ UNCHANGED << instances, handlers, loggerLevel >>
       ELSE IF log_level \notin LevelNames
       THEN \* _setup_logging: getattr(logging, ...) raises before addHandler
            /\ lastCtor' = [attempted |-> TRUE, credential |-> ~Falsy(tok),
                            outcome |-> "AttributeError", client |-> TRUE,
                            config |-> TRUE, handler |-> TRUE,
                            produced |-> FALSE]
            /\ UNCHANGED << instances, handlers, loggerLevel >>
       ELSE /\ lastCtor' = [attempted |-> TRUE, credential |-> ~Falsy(tok),
                            outcome |-> "ok", client |-> TRUE,
                            config |-> TRUE, handler |-> TRUE,
                            produced |-> TRUE]
            /\ instances' = Append(instances,
                                [token |-> tok, client |-> TRUE,
                                 config |-> DefaultConfig, logger |-> TRUE])
            /\ loggerLevel' = LevelNo(log_level)
            /\ handlers' = handlers + 1
    /\ UNCHANGED << appended, callVars >>

\* -------------------------------------------------------------- validation
\* _validate_file: the first check that fails, or "ok"
validate_file_outcome(inst, f) ==
    IF f.kind = "missing" THEN "File not found"
    ELSE IF f.size > instances[inst].config.max_file_size
         THEN "File exceeds maximum size"
    ELSE IF lower(f.suffix) \notin instances[inst].config.allowed_file_types
         THEN "File type not allowed"
    ELSE "ok"

validate_file(inst, f) == validate_file_outcome(inst, f) = "ok"

\* what _validate_file(f) hands to the logger: one error, or nothing
validate_file_records(inst, f) ==
    IF validate_file(inst, f) THEN <<>>
    ELSE << Record("ERROR", validate_file_outcome(inst, f), NoUser, "") >>

Init ==
    /\ instances = <<>>
    /\ lastCtor = NoCtor
    /\ handlers = 0
    /\ loggerLevel = 0
    /\ appended = <<>>
    /\ pc = "idle"
    /\ self = 0
    /\ user_id = NoUser
    /\ file_path = NoFile
    /\ files = "unbound"
    /\ ret = FALSE
    /\ exc = NoExc
    /\ remote = <<>>
    /\ openHandles = {}
    /\ result = [kind |-> "none", value |-> FALSE, error |-> ""]
    /\ validated = [done |-> FALSE, file |-> NoFile, result |-> FALSE]
    /\ logged = <<>>
    /\ calls = 0

NoResult == [kind |-> "none", value |-> FALSE, error |-> ""]

\* a direct call of _validate_file(f) on instance inst
validate_file_call(inst, f) ==
    /\ pc = "idle"
    /\ inst \in 1..Len(instances)
    /\ calls < MaxCalls
    /\ f.truthy
    /\ calls' = calls + 1
    /\ self' = inst
    /\ logged' = validate_file_records(inst, f)
    /\ appended' = IF logged' = <<>> THEN <<>> ELSE Emit(<<>>, logged'[1])
    /\ validated' = [done |-> TRUE, file |-> f, result |-> validate_file(inst, f)]
    /\ user_id' = NoUser
    /\ file_path' = NoFile
    /\ files' = "unbound"
    /\ ret' = FALSE
    /\ remote' = <<>>
    /\ result' = NoResult
    /\ lastCtor' = NoCtor
    /\ UNCHANGED << instances, handlers, loggerLevel, pc, exc, openHandles >>

\* ------------------------------------------------------------------ send_dm
\* entry: the arguments are bound, no local is
send_dm(inst, u, f) ==
    /\ pc = "idle"
    /\ inst \in 1..Len(instances)
    /\ calls < MaxCalls
    /\ calls' = calls + 1
    /\ self' = inst
    /\ user_id' = u
    /\ file_path' = f
    /\ files' = "unbound"
    /\ ret' = FALSE
    /\ exc' = NoExc
    /\ remote' = <<>>
    /\ result' = NoResult
    /\ validated' = [done |-> FALSE, file |-> NoFile, result |-> FALSE]
    /\ logged' = <<>>
    /\ pc' = "check_user"
    /\ lastCtor' = NoCtor
    /\ appended' = <<>>
    /\ UNCHANGED << instances, handlers, loggerLevel, openHandles >>

\* lines 157-159: user_id.startswith('U')
check_user ==
    /\ pc = "check_user"
    /\ IF ~user_id.isStr
       THEN /\ exc' = [type |-> "AttributeError", msg |-> "no attribute startswith"]
            /\ pc' = "except_Exception"
            /\ UNCHANGED << ret, appended, logged >>
       ELSE IF ~startswith(user_id.chars, "U")
       THEN /\ Log(<< Record("ERROR", "Invalid user ID format", user_id, "") >>)
            /\ ret' = FALSE
            /\ pc' = "finally"
            /\ UNCHANGED exc
       ELSE /\ pc' = "attach"
            /\ UNCHANGED << ret, exc, appended, logged >>
    /\ UNCHANGED << instances, lastCtor, handlers, loggerLevel, self, user_id,
                    file_path, files, remote, openHandles, result, validated,
                    calls >>

\* variant: the result of the validation is ignored
AbortOnInvalidNever(valid) == FALSE

\* line 165: `if not self._validate_file(file_path): return False`
AbortOnInvalid(valid) == ~valid

\* line 167: file_path.open('rb') succeeds on a readable regular file
CanOpen(f) == f.kind = "file" /\ f.readable

\* lines 162-167: files = None, then validate and open the attachment
attach ==
    /\ pc = "attach"
    /\ IF ~file_path.truthy
       THEN /\ files' = "None"
            /\ pc' = "conversations_open"
            /\ UNCHANGED << ret, exc, appended, logged, openHandles, validated >>
       ELSE /\ validated' = [done |-> TRUE, file |-> file_path,
                             result |-> validate_file(self, file_path)]
            /\ Log(validate_file_records(self, file_path))
            /\ IF AbortOnInvalid(validate_file(self, file_path))
               THEN /\ files' = "None"
                    /\ ret' = FALSE
                    /\ pc' = "finally"
                    /\ UNCHANGED << exc, openHandles >>
               ELSE IF CanOpen(file_path)
               THEN /\ files' = "handle"
                    /\ openHandles' = openHandles \cup {calls}
                    /\ pc' = "conversations_open"
                    /\ UNCHANGED << ret, exc >>
               ELSE /\ files' = "None"
                    /\ exc' = [type |-> "OSError", msg |-> "cannot open"]
                    /\ pc' = "except_Exception"
                    /\ UNCHANGED << ret, openHandles >>
    /\ UNCHANGED << instances, lastCtor, handlers, loggerLevel, self, user_id,
                    file_path, remote, result, calls >>

\* which handler takes an exception raised inside the inner try
Handler(e) == IF e.type = "SlackApiError" THEN "except_SlackApiError"
              ELSE "except_Exception"

\* one call of the remote client: it is recorded, then returns or raises
RemoteCall(name, outcome, nextpc) ==
    /\ remote' = Append(remote, [call |-> name, outcome |-> outcome.type,
                                  msg |-> outcome.msg])
    /\ IF outcome = NoExc
       THEN pc' = nextpc /\ UNCHANGED exc
       ELSE pc' = Handler(outcome) /\ exc' = outcome
    /\ UNCHANGED << instances, lastCtor, handlers, loggerLevel, appended, self,
                    user_id, file_path, files, ret, openHandles, result,
                    validated, logged, calls >>

\* lines 172-173: open the DM channel and read the channel id of the response
conversations_open ==
    /\ pc = "conversations_open"
    /\ \/ \E o \in RemoteOutcomes : RemoteCall("conversations_open", o, "chat_postMessage")
       \/ \* the call returned, response['channel']['id'] raised
          /\ remote' = Append(remote, [call |-> "conversations_open",
                                    outcome |-> "none", msg |-> ""])
          /\ exc' = [type |-> "KeyError", msg |-> "channel"]
          /\ pc' = "except_Exception"
          /\ UNCHANGED << instances, lastCtor, handlers, loggerLevel, appended, self,
                          user_id, file_path, files, ret, openHandles, result,
                          validated, logged, calls >>

\* `if files:` a dict with one key is true, None is false
FilesTruthy(fl) == fl = "handle"

\* variant: the upload is attempted whether or not a file was attached
AfterPostAlwaysUpload(fl) == "files_upload"

\* line 183: after the post, upload only if a file was attached
AfterPost(fl) == IF FilesTruthy(fl) THEN "files_upload" ELSE "success"

\* lines 176-180
chat_postMessage ==
    /\ pc = "chat_postMessage"
    /\ \E o \in RemoteOutcomes : RemoteCall("chat_postMessage", o, AfterPost(files))

\* lines 184-188
files_upload ==
    /\ pc = "files_upload"
    /\ \E o \in RemoteOutcomes : RemoteCall("files_upload", o, "success")

\* lines 190-191
success ==
    /\ pc = "success"
    /\ Log(<< Record("INFO", "Successfully sent message", user_id, "") >>)
    /\ ret' = TRUE
    /\ pc' = "finally"
    /\ UNCHANGED << instances, lastCtor, handlers, loggerLevel, self, user_id,
                    file_path, files, exc, remote, openHandles, result,
                    validated, calls >>

\* variant: the handler lets the error go on to the caller
except_SlackApiError_reraise ==
    /\ pc = "except_SlackApiError"
    /\ pc' = "finally"
    /\ UNCHANGED << instances, lastCtor, handlers, loggerLevel, appended, self,
                    user_id, file_path, files, ret, exc, remote, openHandles,
                    result, validated, logged, calls >>

\* lines 193-195
except_SlackApiError ==
    /\ pc = "except_SlackApiError"
    /\ Log(<< Record("ERROR", "Failed to send message", NoUser, exc.msg) >>)
    /\ exc' = NoExc
    /\ ret' = FALSE
    /\ pc' = "finally"
    /\ UNCHANGED << instances, lastCtor, handlers, loggerLevel, self, user_id,
                    file_path, files, remote, openHandles, result, validated,
                    calls >>

\* lines 197-199
except_Exception ==
    /\ pc = "except_Exception"
    /\ Log(<< Record("ERROR", "Unexpected error", NoUser, exc.msg) >>)
    /\ exc' = NoExc
    /\ ret' = FALSE
    /\ pc' = "finally"
    /\ UNCHANGED << instances, lastCtor, handlers, loggerLevel, self, user_id,
                    file_path, files, remote, openHandles, result, validated,
                    calls >>

\* variant: the handle is left open
files_close_never(fl, hs, h) == hs

\* lines 202-203: `if files: files['file'].close()`
files_close(fl, hs, h) == IF FilesTruthy(fl) THEN hs \ {h} ELSE hs

\* lines 200-203: the finally clause, then the call ends.  Reading the local
\* `files` before line 162 bound it raises UnboundLocalError, which replaces
\* the pending return; an exception no handler took goes on to the caller.
finally ==
    /\ pc = "finally"
    /\ IF files = "unbound"
       THEN /\ result' = [kind |-> "raise", value |-> FALSE,
                          error |-> "UnboundLocalError"]
            /\ UNCHANGED openHandles
       ELSE /\ openHandles' = files_close(files, openHandles, calls)
            /\ result' = IF exc # NoExc
                         THEN [kind |-> "raise", value |-> FALSE, error |-> exc.type]
                         ELSE [kind |-> "return", value |-> ret, error |-> ""]
    /\ pc' = "idle"
    /\ UNCHANGED << instances, lastCtor, handlers, loggerLevel, appended, self,
                    user_id, file_path, files, ret, exc, remote, validated,
                    logged, calls >>

Next ==
    \/ \E t \in Tokens, e \in EnvTokens, l \in LogLevelEnv : SlackMessenger(t, e, l)
    \/ \E i \in 1..MaxInstances, f \in FilePaths : validate_file_call(i, f)
    \/ \E i \in 1..MaxInstances, u \in UserIds, f \in FilePaths : send_dm(i, u, f)
    \/ check_user
    \/ attach
    \/ conversations_open
    \/ chat_postMessage
    \/ files_upload
    \/ success
    \/ except_SlackApiError
    \/ except_Exception
    \/ finally

Spec == Init /\ [][Next]_vars

\* =================================================================== claims
\* a send_dm call has ended
Finished == pc = "idle" /\ result.kind # "none"
ReturnedFalse == result.kind = "return" /\ result.value = FALSE
ReturnedTrue  == result.kind = "return" /\ result.value = TRUE
\* the remote call `name` was made and returned
Succeeded(name) ==
    \E i \in DOMAIN remote : remote[i].call = name /\ remote[i].outcome = "none"

\* C1: every send_dm call ends by returning a boolean, never by raising.
C1_NoErrorEscapes == Finished => result.kind = "return"

\* C2: a send_dm call whose user_id is a string not starting with 'U' returns
\* False and makes no remote call.
C2_BadPrefixReturnsFalse ==
    (Finished /\ user_id.isStr /\ ~startswith(user_id.chars, "U"))
        => (ReturnedFalse /\ remote = <<>>)

\* the attachment fails validation as the claim words it: missing, over the
\* size limit, or of an extension outside the allow-list
FailsValidation(f) ==
    \/ f.kind = "missing"
    \/ f.size > max_file_size
    \/ lower(f.suffix) \notin allowed_file_types

\* C3: once send_dm has validated an attachment that fails validation, no
\* remote call is made and no file handle is opened, at any later point of
\* the call, and the call returns False.
C3_InvalidAttachmentNoRemote ==
    (file_path.truthy /\ validated.done /\ FailsValidation(file_path))
        => /\ remote = <<>>
           /\ files # "handle"
           /\ openHandles = {}
           /\ pc \in {"finally", "idle"}
           /\ (pc = "idle" => ReturnedFalse)
C3_Witness ==
    /\ Finished /\ ReturnedFalse
    /\ user_id.isStr /\ startswith(user_id.chars, "U")
    /\ file_path.kind = "file" /\ file_path.readable
    /\ file_path.size <= max_file_size
    /\ FailsValidation(file_path)

\* C4: between calls no file handle is open, and during a call the only
\* handle open is the one the call itself opened.
C4_HandleClosed ==
    /\ (pc = "idle" => openHandles = {})
    /\ openHandles \subseteq {calls}
    /\ (openHandles # {} => files = "handle")
C4_Witness ==
    /\ Finished /\ ReturnedFalse
    /\ files = "handle"
    /\ Len(remote) = 1 /\ remote[1].outcome = "Exception"
    /\ calls = 2

\* C5: a construction without a credential raises the configuration error
\* having created no client, configuration or handler, and leaves the
\* instances and the logger as they were; a construction that adds an
\* instance adds one with a credential, a client, the default configuration
\* and a logger with a handler attached.
C5_ConstructionStep ==
    /\ (lastCtor'.attempted /\ ~lastCtor'.credential)
          => /\ lastCtor'.outcome = "ValueError"
             /\ ~lastCtor'.client /\ ~lastCtor'.config /\ ~lastCtor'.handler
             /\ ~lastCtor'.produced
             /\ instances' = instances
             /\ handlers' = handlers /\ loggerLevel' = loggerLevel
    /\ instances' # instances
          => /\ Len(instances') = Len(instances) + 1
             /\ SubSeq(instances', 1, Len(instances)) = instances
             /\ LET new == instances'[Len(instances')] IN
                  /\ ~Falsy(new.token)
                  /\ new.client /\ new.logger
                  /\ new.config = DefaultConfig
             /\ lastCtor'.outcome = "ok" /\ lastCtor'.credential
             /\ handlers' >= 1
C5_AtomicConstruction ==
    [][(lastCtor' # lastCtor \/ instances' # instances) => C5_ConstructionStep]_vars
C5_Witness ==
    /\ lastCtor.outcome = "ValueError"
    /\ Len(instances) = 1

\* C6: _validate_file returns True exactly for an existing regular file,
\* not larger than the limit, whose lower-cased extension is allowed.
C6_ValidateIff ==
    validated.done =>
        (validated.result <=>
            /\ validated.file.kind = "file"
            /\ validated.file.size <= max_file_size
            /\ lower(validated.file.suffix) \in allowed_file_types)

\* C7: a send_dm call in which a remote call raised a remote-API error
\* returns False, and handed the logger an ERROR record with that error's
\* message.
C7_ApiErrorAbsorbed ==
    Finished =>
        \A i \in DOMAIN remote :
            remote[i].outcome = "SlackApiError"
                => /\ ReturnedFalse
                   /\ \E j \in DOMAIN logged :
                         /\ logged[j].level = "ERROR"
                         /\ logged[j].event = "Failed to send message"
                         /\ logged[j].err = remote[i].msg
C7_Witness ==
    /\ Finished /\ ReturnedFalse
    /\ Len(remote) = 3
    /\ remote[3].outcome = "SlackApiError" /\ remote[3].msg = "ratelimited"

RemoteOrder == << "conversations_open", "chat_postMessage", "files_upload" >>

\* C8: the remote calls of one send_dm call are a prefix of open channel,
\* post message, upload file, each made once and only after the one before
\* it returned; the upload is made only with a validated, opened attachment;
\* with an attachment and three calls that return the call returns True.
C8_RemoteCallOrder ==
    /\ Len(remote) <= 3
    /\ \A i \in DOMAIN remote : remote[i].call = RemoteOrder[i]
    /\ \A i \in DOMAIN remote : i < Len(remote) => remote[i].outcome = "none"
    /\ Len(remote) = 3
          => /\ files = "handle"
             /\ file_path.truthy /\ validated.done /\ validated.result
    /\ (Finished /\ files = "handle" /\ Len(remote) = 3
          /\ remote[3].outcome = "none") => ReturnedTrue
    /\ (Finished /\ ReturnedTrue) => Len(remote) = (IF files = "handle" THEN 3 ELSE 2)
C8_Witness ==
    /\ Finished /\ ReturnedTrue
    /\ Len(remote) = 3 /\ remote[3].outcome = "none"

\* C9: with the logger at a level that lets INFO and ERROR through, every
\* send_dm call that returns has appended exactly one record to the log
\* file: an INFO record naming the recipient if it returned True, an ERROR
\* record if it returned False.
C9_OneRecordPerCall ==
    (Finished /\ result.kind = "return" /\ loggerLevel <= 20)
        => /\ Len(appended) = 1
           /\ IF ReturnedTrue
              THEN appended[1].level = "INFO" /\ appended[1].user = user_id
              ELSE appended[1].level = "ERROR"

\* C10: a send_dm call returns True exactly when it posted the text message;
\* a False return means that no message was posted.
C10_TrueIffPosted ==
    (Finished /\ result.kind = "return")
        => (result.value <=> Succeeded("chat_postMessage"))
====
